---- MODULE Spec2Model ----
(***************************************************************************)
(* svds (scipy/sparse/linalg/eigen/_svds.py): partial SVD of an operator A *)
(* through the eigenpairs of the Gram operator A^H A or A A^H.             *)
(*                                                                         *)
(* One call of svds is followed line by line: validation, operator         *)
(* selection, the Gram operator, the eigensolver dispatch, the cutoff of   *)
(* small eigenvalues, the augmentation with random orthonormal vectors and *)
(* the final sort.  Numbers are exact dyadic rationals m * 2^e, vectors    *)
(* are records that say where the vector comes from (eigenvector j, the    *)
(* operator applied to eigenvector j and divided by a singular value, or a *)
(* draw of the global random generator), matrices carry their shape.       *)
(* tol, maxiter and ncv are handed to the eigensolver unchanged and never  *)
(* read by svds itself; they are not modelled.                             *)
(***************************************************************************)
EXTENDS Integers, Sequences, FiniteSets, TLC

\* Operator shapes are (n, m) with n, m in 2..MaxDim; k ranges over 0..MaxK.
MaxDim == 4
MaxK == 2
\* States np.random.seed can put the global generator in between two calls.
MaxSeed == 0

VARIABLES
    args,       \* the arguments of the call: A, k, which, v0, return_singular_vectors, solver
    pc,         \* where the call is: start, select, solve, done
    largest,    \* line 135
    X_dot, X_matmat, XH_dot, XH_mat,   \* lines 149-171
    XH_X,       \* line 179
    X,          \* the initial block handed to lobpcg, lines 187-190
    eigvals, eigvec,                   \* what the eigensolver returned
    applied,    \* the primitives of A applied and the eigensolvers called so far
    rng,        \* the state of the global generator np.random
    rng0,       \* its state when the call began
    result,     \* what the call returned or raised
    prev        \* the call before this one, when the same call is made twice

vars == <<args, pc, largest, X_dot, X_matmat, XH_dot, XH_mat, XH_X, X,
          eigvals, eigvec, applied, rng, rng0, result, prev>>

Min(a, b) == IF a <= b THEN a ELSE b

Abs(x) == IF x < 0 THEN -x ELSE x

----------------------------------------------------------------------------
(* Floating point values as exact dyadic rationals m * 2^e.                *)

F(m, e) == [m |-> m, e |-> e]

Zero == F(0, 0)

\* m * 2^d > y for d >= 0; a product past the 32 bits of an integer is
\* decided by its sign.
GtShift(m, d, y) ==
    IF m = 0 \/ d = 0 THEN m > y
    ELSE IF d > 30 \/ Abs(m) >= 2^(31 - d) THEN m > 0
    ELSE m * 2^d > y

\* m * 2^d < y for d >= 0
LtShift(m, d, y) ==
    IF m = 0 \/ d = 0 THEN m < y
    ELSE IF d > 30 \/ Abs(m) >= 2^(31 - d) THEN m < 0
    ELSE m * 2^d < y

\* a > b
Gt(a, b) ==
    IF a.e >= b.e THEN GtShift(a.m, a.e - b.e, b.m)
    ELSE LtShift(b.m, b.e - a.e, a.m)

\* The same value with an odd mantissa (zero stays as it is).
RECURSIVE Norm(_)
Norm(a) == IF a.m = 0 \/ a.m % 2 # 0 THEN a ELSE Norm(F(a.m \div 2, a.e + 1))

MulNorm(a, b) == F(a.m * b.m, a.e + b.e)

\* a * b
Mul(a, b) == MulNorm(Norm(a), Norm(b))

IsZero(a) == a.m = 0

Same(a, b) == ~Gt(a, b) /\ ~Gt(b, a)

\* The integer square root of x, between lo and hi, by bisection.
RECURSIVE SqrtBetween(_, _, _)
SqrtBetween(x, lo, hi) ==
    IF lo >= hi THEN lo
    ELSE IF ((lo + hi + 1) \div 2) * ((lo + hi + 1) \div 2) > x
         THEN SqrtBetween(x, lo, ((lo + hi + 1) \div 2) - 1)
         ELSE SqrtBetween(x, (lo + hi + 1) \div 2, hi)

\* np.sqrt on the values of EigDomain: mantissas are squares, exponents even.
Sqrt(a) == F(SqrtBetween(a.m, 0, a.m), a.e \div 2)

\* A complex eigenvalue re + im*j as the eigensolver may hand it back.
Cx(re, im) == [re |-> re, im |-> im]

Real(z) == z.re

\* The eigenvalues the eigensolver may return: a negative round-off value,
\* zero, 10^6 * 2^-52 (the double cutoff of 1), 2^-20 (between the double
\* and the single cutoff of 1) and 1; two of them with imaginary residue.
EigDomain ==
    { Cx(F(-1, 0), 1), Cx(Zero, 0), Cx(F(15625, -46), 0),
      Cx(F(1, -20), 0), Cx(F(1, 0), -1) }

\* eigvec.dtype.char: float32 (real, single precision) and complex128
\* (complex, double precision).
DTypes == {"f", "D"}

----------------------------------------------------------------------------
(* The arguments of one call.                                              *)

Dims == 2..MaxDim

NoV0 == [isNone |-> TRUE, len |-> 0]

V0(len) == [isNone |-> FALSE, len |-> len]

\* A: its kind, its shape and whether A.dtype is set (a LinearOperator
\* subclass may leave dtype None).
Operators ==
    [kind : {"LinearOperator", "ndarray"}, n : Dims, m : Dims, dtype : {"set", "None"}]
        \ [kind : {"ndarray"}, n : Dims, m : Dims, dtype : {"None"}]

V0s(A) == {NoV0, V0(Min(A.n, A.m)), V0(Min(A.n, A.m) + 1)}

Whichs == {"LM", "SM", "BE"}

Solvers == {"arpack", "lobpcg", "None", "propack"}

\* return_singular_vectors: True, "u", "vh", False
Modes == {"True", "u", "vh", "False"}

ArgSets ==
    { a \in [A : Operators, k : 0..MaxK, which : Whichs, v0 : UNION {V0s(A) : A \in Operators},
             return_singular_vectors : Modes, solver : Solvers] :
        a.v0 \in V0s(a.A) }

----------------------------------------------------------------------------
(* The primitives of A and the matrices svds works with.                   *)

\* A primitive applied to a vector or block with `in` rows gives `out` rows.
Prim(name, of, shape) == [name |-> name, of |-> of, in |-> shape[2], out |-> shape[1]]

NoPrim == [name |-> "", of |-> "", in |-> 0, out |-> 0]

Shape(A) == <<A.n, A.m>>

\* The shape of _herm(A) = A.T.conj()
HermShape(A) == <<A.m, A.n>>

matvec(A) == Prim("matvec", "A", Shape(A))

matmat(A) == Prim("matmat", "A", Shape(A))

rmatvec(A) == Prim("rmatvec", "A.H", HermShape(A))

rmatmat(A) == Prim("rmatmat", "A.H", HermShape(A))

\* A.dot of a dense or sparse matrix
dot(A) == Prim("dot", "A", Shape(A))

\* _herm(A).dot
herm_dot(A) == Prim("dot", "A.H", HermShape(A))

NoGram == [shape |-> <<0, 0>>, matvec |-> <<NoPrim, NoPrim>>, matmat |-> <<NoPrim, NoPrim>>]

\* A vector by its origin: column j of eigvec ("eig"), X_matmat applied to
\* column j of eigvec and divided by `by` ("X"), or the draw of the global
\* generator in state g ("rand"). H: conjugated by _herm.
Vec(src, j, g, by, H) == [src |-> src, j |-> j, g |-> g, by |-> by, H |-> H]

\* A matrix: its shape, its vectors (its columns if byCol, else its rows)
\* and its dtype char.
Mat(shape, byCol, vecs, dtype) ==
    [isNone |-> FALSE, shape |-> shape, byCol |-> byCol, vecs |-> vecs, dtype |-> dtype]

NoneMat == [isNone |-> TRUE, shape |-> <<0, 0>>, byCol |-> TRUE, vecs |-> <<>>, dtype |-> ""]

\* x.T
T(x) == Mat(<<x.shape[2], x.shape[1]>>, ~x.byCol, x.vecs, x.dtype)

\* _herm(x) = x.T.conj()
_herm(x) ==
    Mat(<<x.shape[2], x.shape[1]>>, ~x.byCol,
        [i \in 1..Len(x.vecs) |-> [x.vecs[i] EXCEPT !.H = ~x.vecs[i].H]], x.dtype)

\* The indexes of a boolean mask that are TRUE, ascending.
RECURSIVE Where(_, _)
Where(mask, i) ==
    IF i > Len(mask) THEN <<>>
    ELSE (IF mask[i] THEN <<i>> ELSE <<>>) \o Where(mask, i + 1)

\* seq[idx] for an index array idx
Take(seq, idx) == [i \in 1..Len(idx) |-> seq[idx[i]]]

\* x[:, idx]: columns picked by a mask or an index array
TakeCols(x, idx) == Mat(<<x.shape[1], Len(idx)>>, x.byCol, Take(x.vecs, idx), x.dtype)

\* x[idx]: rows picked by an index array
TakeRows(x, idx) == Mat(<<Len(idx), x.shape[2]>>, x.byCol, Take(x.vecs, idx), x.dtype)

\* X_matmat(v) / slarge: the primitive applied to every column, column i
\* divided by slarge[i].
MatMatDiv(op, v, slarge) ==
    Mat(<<op.out, v.shape[2]>>, TRUE,
        [i \in 1..Len(v.vecs) |-> Vec("X", v.vecs[i].j, 0, slarge[i], FALSE)], v.dtype)

----------------------------------------------------------------------------
(* State.                                                                  *)

Pending == [kind |-> "pending", err |-> "", u |-> NoneMat, s |-> <<>>, vh |-> NoneMat]

Raised(err) == [kind |-> "raise", err |-> err, u |-> NoneMat, s |-> <<>>, vh |-> NoneMat]

NoBlock == [shape |-> <<0, 0>>, src |-> "", g |-> 0]

NoOutcome == [ok |-> FALSE, err |-> "", eigvals |-> <<>>, dtype |-> ""]

NoPrev == [isNone |-> TRUE, X |-> NoBlock, outcome |-> NoOutcome, result |-> Pending, rng0 |-> 0]

Fresh(a, g) ==
    /\ args = a
    /\ pc = "start"
    /\ largest = FALSE
    /\ X_dot = NoPrim /\ X_matmat = NoPrim /\ XH_dot = NoPrim /\ XH_mat = NoPrim
    /\ XH_X = NoGram
    /\ X = NoBlock
    /\ eigvals = <<>>
    /\ eigvec = NoneMat
    /\ applied = {}
    /\ rng = g
    /\ rng0 = g
    /\ result = Pending

\* A call with any arguments; the global generator in its initial state.
Init == \E a \in ArgSets : Fresh(a, 0) /\ prev = NoPrev

Raise(err) ==
    /\ result' = Raised(err)
    /\ pc' = "done"

----------------------------------------------------------------------------
(* svds, lines 134-181: validation, operator selection, Gram operator.     *)

\* lines 134-147: which, then k against the shape of A
Validate ==
    /\ pc = "start"
    /\ IF args.which \notin {"LM", "SM"}
       THEN Raise("which must be either 'LM' or 'SM'.") /\ UNCHANGED largest
       ELSE /\ largest' = (args.which = "LM")
            /\ IF args.k <= 0 \/ args.k >= Min(args.A.n, args.A.m)
               THEN Raise("k must be between 1 and min(A.shape)")
               ELSE pc' = "select" /\ UNCHANGED result
    /\ UNCHANGED <<args, X_dot, X_matmat, XH_dot, XH_mat, XH_X, X, eigvals, eigvec,
                   applied, rng, rng0, prev>>

\* Select with n >= m where the code has n > m.
SelectSquareForward(A) ==
    IF A.kind = "LinearOperator"
    THEN IF A.n >= A.m
         THEN <<matvec(A), matmat(A), rmatvec(A), rmatmat(A)>>
         ELSE <<rmatvec(A), rmatmat(A), matvec(A), matmat(A)>>
    ELSE IF A.n >= A.m
         THEN <<dot(A), dot(A), herm_dot(A), herm_dot(A)>>
         ELSE <<herm_dot(A), herm_dot(A), dot(A), dot(A)>>

\* lines 149-171: the four primitives [X_dot, X_matmat, XH_dot, XH_mat]
Select(A) ==
    IF A.kind = "LinearOperator"
    THEN IF A.n > A.m
         THEN <<matvec(A), matmat(A), rmatvec(A), rmatmat(A)>>
         ELSE <<rmatvec(A), rmatmat(A), matvec(A), matmat(A)>>
    ELSE IF A.n > A.m
         THEN <<dot(A), dot(A), herm_dot(A), herm_dot(A)>>
         ELSE <<herm_dot(A), herm_dot(A), dot(A), dot(A)>>

\* lines 161-163: the primitives applied to find a dtype that A does not give
DtypeProbe(A) ==
    IF A.kind = "LinearOperator" /\ ~(A.n > A.m) /\ A.dtype = "None"
    THEN {"dot"} ELSE {}

\* lines 173-181: matvec is XH_dot(X_dot(x)), matmat is XH_mat(X_matmat(x))
GramOperator(A, xd, xm, xhd, xhm) ==
    [shape |-> <<Min(A.n, A.m), Min(A.n, A.m)>>,
     matvec |-> <<xd, xhd>>, matmat |-> <<xm, xhm>>]

\* lines 149-181
BuildGram ==
    /\ pc = "select"
    /\ X_dot' = Select(args.A)[1]
    /\ X_matmat' = Select(args.A)[2]
    /\ XH_dot' = Select(args.A)[3]
    /\ XH_mat' = Select(args.A)[4]
    /\ applied' = applied \cup DtypeProbe(args.A)
    /\ XH_X' = GramOperator(args.A, X_dot', X_matmat', XH_dot', XH_mat')
    /\ pc' = "solve"
    /\ UNCHANGED <<args, largest, X, eigvals, eigvec, rng, rng0, result, prev>>

----------------------------------------------------------------------------
(* The eigensolvers called at lines 192 and 196.  eigsh and lobpcg are not *)
(* part of _svds.py; they are modelled by their contract: k eigenpairs of  *)
(* the operator, any values of EigDomain in any order, or an error.        *)

Converged(ev, dt) == [ok |-> TRUE, err |-> "", eigvals |-> ev, dtype |-> dt]

Failed(err) == [ok |-> FALSE, err |-> err, eigvals |-> <<>>, dtype |-> ""]

Eigenpairs(count) == {Converged(ev, dt) : ev \in [1..count -> EigDomain], dt \in DTypes}

\* eigsh(XH_X, k=k, which=which, v0=v0): a starting vector of the wrong
\* length is refused; the iteration may fail to converge.
eigsh(G, k, v0) ==
    IF ~v0.isNone /\ v0.len # G.shape[1]
    THEN {Failed("ShapeMismatch")}
    ELSE {Failed("ArpackNoConvergence")} \cup Eigenpairs(k)

\* lobpcg(XH_X, X, largest=largest): one eigenpair per column of X; a block
\* whose rows do not match the operator is refused.
lobpcg(G, B) ==
    IF B.shape[1] # G.shape[1]
    THEN {Failed("ShapeMismatch")}
    ELSE Eigenpairs(B.shape[2])

\* The eigenvectors as a matrix of min(n, m) rows, one column per eigenvalue.
EigVec(G, o) ==
    Mat(<<G.shape[1], Len(o.eigvals)>>, TRUE,
        [j \in 1..Len(o.eigvals) |-> Vec("eig", j, 0, Zero, FALSE)], o.dtype)

\* InitialBlock drawing from the global generator: np.random.randn in the
\* place of np.random.RandomState(52).randn.
InitialBlockGlobal(A, k, v0) ==
    IF k = 1 /\ ~v0.isNone
    THEN [shape |-> <<v0.len, 1>>, src |-> "v0", g |-> 0]
    ELSE [shape |-> <<Min(A.n, A.m), k>>, src |-> "np.random", g |-> rng]

\* lines 187-190: np.reshape(v0, (-1, 1)) or RandomState(52).randn(min(A.shape), k)
InitialBlock(A, k, v0) ==
    IF k = 1 /\ ~v0.isNone
    THEN [shape |-> <<v0.len, 1>>, src |-> "v0", g |-> 0]
    ELSE [shape |-> <<Min(A.n, A.m), k>>, src |-> "RandomState(52)", g |-> 0]

\* A deterministic eigensolver: asked the same again, it answers the same.
Repeats(B, o) == (~prev.isNone /\ prev.X = B) => o = prev.outcome

----------------------------------------------------------------------------
(* svds, lines 202-218: the cutoff of small eigenvalues.                   *)

\* line 203: np.maximum(eigvals.real, 0)
Clamp(ev) == [i \in 1..Len(ev) |-> IF Gt(Zero, Real(ev[i])) THEN Zero ELSE Real(ev[i])]

\* line 206: eigvec.dtype.char.lower()
Lower(c) == IF c = "D" THEN "d" ELSE IF c = "F" THEN "f" ELSE c

\* line 207: factor = {'f': 1E3, 'd': 1E6}
factor(t) == IF t = "f" THEN F(1000, 0) ELSE F(1000000, 0)

\* np.finfo(t).eps: 2^-23 for float32, 2^-52 for float64
eps(t) == IF t = "f" THEN F(1, -23) ELSE F(1, -52)

\* line 208
cond(t) == Mul(factor(t), eps(t))

\* np.max
Greater(a, b) == IF Gt(a, b) THEN a ELSE b

RECURSIVE NpMax(_)
NpMax(v) == IF Len(v) = 1 THEN v[1] ELSE Greater(v[1], NpMax(Tail(v)))

\* line 209
cutoff(ev, t) == Mul(cond(t), NpMax(ev))

\* above_cutoff with >= where the code has >.
above_cutoff_or_equal(ev, c) == [i \in 1..Len(ev) |-> ~Gt(c, ev[i])]

\* line 213: the mask of the eigenvalues that are not degenerately tiny
above_cutoff(ev, c) == [i \in 1..Len(ev) |-> Gt(ev[i], c)]

\* line 216: np.sqrt(eigvals[above_cutoff])
SqrtOf(ev, idx) == [i \in 1..Len(idx) |-> Sqrt(ev[idx[i]])]

\* lines 217-218: s = np.zeros_like(eigvals); s[:nlarge] = slarge
Padded(ev, slarge) == [i \in 1..Len(ev) |-> IF i <= Len(slarge) THEN slarge[i] ELSE Zero]

\* lines 203-218 on the eigensolver's eigenvalues and the eigenvectors' dtype
\* lines 214-218: nlarge, nsmall, s
WithSqrt(k, ev, mask, idx, slarge) ==
    [eigvals |-> ev, above_cutoff |-> mask, large |-> idx, nlarge |-> Len(idx),
     nsmall |-> k - Len(idx), slarge |-> slarge, s |-> Padded(ev, slarge)]

\* line 216: slarge
WithIndexes(k, ev, mask, idx) == WithSqrt(k, ev, mask, idx, SqrtOf(ev, idx))

\* eigvals[above_cutoff]: the positions the mask selects
WithMask(k, ev, mask) == WithIndexes(k, ev, mask, Where(mask, 1))

\* line 213: above_cutoff
WithCutoff(k, ev, c) == WithMask(k, ev, above_cutoff(ev, c))

\* lines 206-209: t, factor, cond, cutoff
WithClamp(k, ev, dtype) == WithCutoff(k, ev, cutoff(ev, Lower(dtype)))

Threshold(k, raw, dtype) == WithClamp(k, Clamp(raw), dtype)

----------------------------------------------------------------------------
(* np.sort and np.argsort.  Both sort in ascending order; on the short     *)
(* arrays of the model numpy's introsort is an insertion sort, which keeps *)
(* equal values in their order.                                            *)

RECURSIVE Insert(_, _)
Insert(x, sorted) ==
    IF sorted = <<>> THEN <<x>>
    ELSE IF Gt(Head(sorted), x) THEN <<x>> \o sorted
    ELSE <<Head(sorted)>> \o Insert(x, Tail(sorted))

RECURSIVE SortFrom(_, _)
SortFrom(v, i) == IF i = 0 THEN <<>> ELSE Insert(v[i], SortFrom(v, i - 1))

\* np.sort(v)
NpSort(v) == SortFrom(v, Len(v))

RECURSIVE InsertIndex(_, _, _)
InsertIndex(i, idx, v) ==
    IF idx = <<>> THEN <<i>>
    ELSE IF Gt(v[Head(idx)], v[i]) THEN <<i>> \o idx
    ELSE <<Head(idx)>> \o InsertIndex(i, Tail(idx), v)

RECURSIVE ArgSortFrom(_, _)
ArgSortFrom(v, i) == IF i = 0 THEN <<>> ELSE InsertIndex(i, ArgSortFrom(v, i - 1), v)

\* An argsort in descending order.
ArgSortDescending(v) == [i \in 1..Len(v) |-> ArgSortFrom(v, Len(v))[Len(v) + 1 - i]]

\* np.argsort(v)
ArgSort(v) == ArgSortFrom(v, Len(v))

----------------------------------------------------------------------------
(* lines 15-40: augmentation with random orthonormal vectors.              *)

\* _augmented_orthonormal_cols(x, k) with the global generator in state g:
\* the matrix with k more columns, and the generator's state afterwards.
\* Each new column is one np.random.randn(n) draw, two for a complex x.
_augmented_orthonormal_cols(x, k, g) ==
    LET draws == IF x.dtype \in {"F", "D"} THEN 2 ELSE 1
    IN  [y |-> Mat(<<x.shape[1], x.shape[2] + k>>, TRUE,
                   x.vecs \o [i \in 1..k |-> Vec("rand", 0, g + (i - 1) * draws, Zero, FALSE)],
                   x.dtype),
         rng |-> g + k * draws]

\* _augmented_orthonormal_rows without the transposition of the result.
AugmentedRowsNotTransposed(x, k, g) == _augmented_orthonormal_cols(T(x), k, g)

\* _augmented_orthonormal_rows(x, k)
_augmented_orthonormal_rows(x, k, g) ==
    LET a == _augmented_orthonormal_cols(T(x), k, g)
    IN  [y |-> T(a.y), rng |-> a.rng]

----------------------------------------------------------------------------
(* svds, lines 219-240: the result.                                        *)

Values(s) == [kind |-> "values", err |-> "", u |-> NoneMat, s |-> s, vh |-> NoneMat]

Triplet(u, s, vh) == [kind |-> "triplet", err |-> "", u |-> u, s |-> s, vh |-> vh]

\* lines 219-220: return np.sort(s)
ReturnValues(th) == Values(NpSort(th.s))

\* lines 222-228: the reliable singular vectors of both sides
Large(A, mode, xm, vec, th) ==
    IF A.n > A.m
    THEN [ularge |-> IF mode # "vh" THEN MatMatDiv(xm, TakeCols(vec, th.large), th.slarge)
                     ELSE NoneMat,
          vhlarge |-> _herm(TakeCols(vec, th.large))]
    ELSE [ularge |-> TakeCols(vec, th.large),
          vhlarge |-> IF mode # "u" THEN _herm(MatMatDiv(xm, TakeCols(vec, th.large), th.slarge))
                      ELSE NoneMat]

\* Whether lines 224 and 228 applied X_matmat
AppliedMatmat(A, mode) == IF A.n > A.m THEN mode # "vh" ELSE mode # "u"

\* lines 230-231, the global generator in state g
Augmented(lg, nsmall, g) ==
    LET a == IF ~lg.ularge.isNone THEN _augmented_orthonormal_cols(lg.ularge, nsmall, g)
             ELSE [y |-> NoneMat, rng |-> g]
        b == IF ~lg.vhlarge.isNone THEN _augmented_orthonormal_rows(lg.vhlarge, nsmall, a.rng)
             ELSE [y |-> NoneMat, rng |-> a.rng]
    IN  [u |-> a.y, vh |-> b.y, rng |-> b.rng]

\* Sorted without the sort: lines 233-238 left out.
NotSorted(u, s, vh) == Triplet(u, s, vh)

\* Sorted without line 238: the rows of vh stay where they were.
SortedButVh(u, s, vh) ==
    LET indexes_sorted == ArgSort(s)
    IN  Triplet(IF ~u.isNone THEN TakeCols(u, indexes_sorted) ELSE NoneMat,
                Take(s, indexes_sorted), vh)

\* lines 233-240
Sorted(u, s, vh) ==
    LET indexes_sorted == ArgSort(s)
    IN  Triplet(IF ~u.isNone THEN TakeCols(u, indexes_sorted) ELSE NoneMat,
                Take(s, indexes_sorted),
                IF ~vh.isNone THEN TakeRows(vh, indexes_sorted) ELSE NoneMat)

\* lines 202-240 on the eigenpairs o of the eigensolver
Return(o) ==
    \E th \in {Threshold(args.k, o.eigvals, o.dtype)} :
        IF args.return_singular_vectors = "False"
        THEN \* lines 219-220
             /\ result' = ReturnValues(th)
             /\ UNCHANGED rng
        ELSE \* lines 222-240
             \E lg \in {Large(args.A, args.return_singular_vectors, X_matmat, EigVec(XH_X, o), th)} :
             \E au \in {Augmented(lg, th.nsmall, rng)} :
                 /\ result' = Sorted(au.u, th.s, au.vh)
                 /\ rng' = au.rng

\* The primitives of A applied from the eigensolver call to the return:
\* unless it refused its arguments, the eigensolver has applied the two
\* halves of the Gram operator; lines 224 and 228 apply X_matmat.
Applied(name, halves, o) ==
    {name}
    \cup (IF o.err = "ShapeMismatch" THEN {} ELSE {halves[1].name, halves[2].name})
    \cup (IF o.ok /\ args.return_singular_vectors # "False"
             /\ AppliedMatmat(args.A, args.return_singular_vectors)
          THEN {X_matmat.name} ELSE {})

\* From the eigensolver's answer to the end of the call.
Finish(name, halves, o) ==
    /\ applied' = applied \cup Applied(name, halves, o)
    /\ pc' = "done"
    /\ IF o.ok
       THEN /\ eigvals' = o.eigvals
            /\ eigvec' = EigVec(XH_X, o)
            /\ Return(o)
       ELSE /\ result' = Raised(o.err)
            /\ UNCHANGED <<eigvals, eigvec, rng>>

\* lines 185-193, then 202-240
SolveLobpcg ==
    /\ pc = "solve"
    /\ args.solver = "lobpcg"
    /\ X' = InitialBlock(args.A, args.k, args.v0)
    /\ \E o \in lobpcg(XH_X, X') : Repeats(X', o) /\ Finish("lobpcg", XH_X.matmat, o)
    /\ UNCHANGED <<args, largest, X_dot, X_matmat, XH_dot, XH_mat, XH_X, rng0, prev>>

\* lines 195-197, then 202-240
SolveArpack ==
    /\ pc = "solve"
    /\ args.solver \in {"arpack", "None"}
    /\ \E o \in eigsh(XH_X, args.k, args.v0) : Finish("eigsh", XH_X.matvec, o)
    /\ UNCHANGED <<args, largest, X_dot, X_matmat, XH_dot, XH_mat, XH_X, X, rng0, prev>>

\* lines 199-200
RaiseSolver ==
    /\ pc = "solve"
    /\ args.solver \notin {"lobpcg", "arpack", "None"}
    /\ Raise("solver must be either 'arpack', or 'lobpcg'.")
    /\ UNCHANGED <<args, largest, X_dot, X_matmat, XH_dot, XH_mat, XH_X, X, eigvals,
                   eigvec, applied, rng, rng0, prev>>

----------------------------------------------------------------------------
(* Specifications.                                                         *)

\* One call of svds.
Next ==
    \/ Validate
    \/ BuildGram
    \/ SolveLobpcg
    \/ SolveArpack
    \/ RaiseSolver

Spec == Init /\ [][Next]_vars

\* The outcome of the eigensolver call of the finished call.
Outcome == IF result.kind = "raise" THEN Failed(result.err) ELSE Converged(eigvals, eigvec.dtype)

\* The same call made once more; in between the global generator is left as
\* it is or re-seeded.
Repeat ==
    /\ pc = "done"
    /\ prev.isNone
    /\ prev' = [isNone |-> FALSE, X |-> X, outcome |-> Outcome, result |-> result, rng0 |-> rng0]
    /\ \E g \in {rng} \cup 0..MaxSeed : rng' = g /\ rng0' = g
    /\ pc' = "start"
    /\ largest' = FALSE
    /\ X_dot' = NoPrim /\ X_matmat' = NoPrim /\ XH_dot' = NoPrim /\ XH_mat' = NoPrim
    /\ XH_X' = NoGram
    /\ X' = NoBlock
    /\ eigvals' = <<>>
    /\ eigvec' = NoneMat
    /\ applied' = {}
    /\ result' = Pending
    /\ UNCHANGED args

Valid(a) ==
    /\ a.which \in {"LM", "SM"}
    /\ 1 <= a.k /\ a.k < Min(a.A.n, a.A.m)

\* Valid calls of the lobpcg backend on a matrix.
InitRepeat ==
    \E a \in ArgSets :
        Valid(a) /\ a.solver = "lobpcg" /\ a.A.kind = "ndarray" /\ Fresh(a, 0) /\ prev = NoPrev

NextRepeat ==
    \/ Validate
    \/ BuildGram
    \/ SolveLobpcg
    \/ Repeat

SpecRepeat == InitRepeat /\ [][NextRepeat]_vars

----------------------------------------------------------------------------
(* Properties.                                                             *)

Returned == pc = "done" /\ result.kind \in {"values", "triplet"}

n == args.A.n

m == args.A.m

k == args.k

mode == args.return_singular_vectors

\* The eigenvalues of the finished call clamped at zero, their cutoff and
\* the eigenpairs above it.
Clamped == Clamp(eigvals)

CutoffOf(ev) == Mul(Mul(factor(Lower(eigvec.dtype)), eps(Lower(eigvec.dtype))), NpMax(ev))

TheCutoff == CutoffOf(Clamped)

Above(ev, c) == {j \in 1..Len(ev) : Gt(ev[j], c)}

Reliable == Above(Clamped, TheCutoff)

\* The sides of the result that were returned.
Sides == {x \in {result.u, result.vh} : ~x.isNone}

HasRandom(r) ==
    \E x \in {r.u, r.vh} : \E i \in 1..Len(x.vecs) : x.vecs[i].src = "rand"

C2_PresenceByMode ==
    Returned =>
        /\ ~result.u.isNone <=> mode \in {"True", "u"}
        /\ ~result.vh.isNone <=> mode \in {"True", "vh"}

\* C3: a returned u has shape (n, k) and a returned vh has shape (k, m),
\* with k columns and k rows, for any number of degenerate eigenvalues.
C3_Shapes ==
    Returned =>
        /\ ~result.u.isNone =>
              result.u.shape = <<n, k>> /\ result.u.byCol /\ Len(result.u.vecs) = k
        /\ ~result.vh.isNone =>
              result.vh.shape = <<k, m>> /\ ~result.vh.byCol /\ Len(result.vh.vecs) = k

\* A call with n > m that returns both sides, one eigenpair reliable and one
\* degenerate, so that both sides were augmented by one vector.
C3_Witness ==
    /\ Returned
    /\ n > m
    /\ k = 2
    /\ Cardinality(Reliable) = 1
    /\ ~result.u.isNone /\ ~result.vh.isNone
    /\ HasRandom(result)

ValidationErrors ==
    { "which must be either 'LM' or 'SM'.",
      "k must be between 1 and min(A.shape)",
      "solver must be either 'arpack', or 'lobpcg'." }

\* C4: when the call ends in a validation error, no primitive of A has been
\* applied and no eigensolver has been called.
C4_FailFast ==
    (pc = "done" /\ result.kind = "raise" /\ result.err \in ValidationErrors) => applied = {}

\* C5: a call with valid which, k and solver and a starting vector whose
\* length is not min(n, m) ends in a ShapeMismatch error.
C5_MismatchRaises ==
    (/\ pc = "done"
     /\ Valid(args)
     /\ args.solver \in {"arpack", "lobpcg", "None"}
     /\ ~args.v0.isNone
     /\ args.v0.len # Min(n, m))
    => result = Raised("ShapeMismatch")

\* The result with the draws of the global generator blanked.
Blank(x) == [x EXCEPT !.vecs = [i \in 1..Len(x.vecs) |->
                 IF x.vecs[i].src = "rand" THEN [x.vecs[i] EXCEPT !.g = 0] ELSE x.vecs[i]]]

Blanked(r) == [r EXCEPT !.u = Blank(r.u), !.vh = Blank(r.vh)]

SecondDone == pc = "done" /\ ~prev.isNone

\* C6, as claimed: the second of two lobpcg calls with the same arguments
\* returns what the first returned.
C6_SameResult == SecondDone => result = prev.result

\* C6, amended: the second call returns the same singular values and the
\* same singular vectors but for the augmented ones, which are draws of the
\* global generator; all of the result is the same when nothing was
\* augmented or the generator was in the same state at both calls.
C6_SameButAugmented ==
    SecondDone =>
        /\ result.s = prev.result.s
        /\ Blanked(result) = Blanked(prev.result)
        /\ (~HasRandom(result) \/ rng0 = prev.rng0) => result = prev.result

\* The second call done, with augmented vectors and the global generator
\* in another state than at the first call.
C6_Witness ==
    /\ SecondDone
    /\ result.kind = "triplet"
    /\ HasRandom(result)
    /\ rng0 # prev.rng0

\* C7: the singular values of a call that returns vectors are the array the
\* values-only mode returns for the same eigenpairs.
C7_ValuesOnlySame ==
    (Returned /\ result.kind = "triplet") =>
        result.s = ReturnValues(Threshold(k, eigvals, eigvec.dtype)).s

\* A call returning vectors whose two eigenvalues are reliable and arrive in
\* descending order.
C7_Witness ==
    /\ Returned
    /\ result.kind = "triplet"
    /\ k = 2
    /\ Reliable = {1, 2}
    /\ Gt(Clamped[1], Clamped[2])

\* How many entries of the sequence v are x.
Count(v, x) == Cardinality({i \in 1..Len(v) : v[i] = x})

\* C8: an eigenpair is reliable iff its clamped eigenvalue is strictly above
\* factor * eps * max; the returned values are the square roots of the
\* reliable eigenvalues and k - |reliable| zeros.
C8_ReliableOrZero ==
    Returned =>
        \E ev \in {Clamped} : \E c \in {CutoffOf(ev)} : \E rel \in {Above(ev, c)} :
        \E root \in {[j \in rel |-> Sqrt(ev[j])]} :
            /\ Cardinality({i \in 1..Len(result.s) : IsZero(result.s[i])})
                   = k - Cardinality(rel)
            /\ \A i \in 1..Len(result.s) :
                  ~IsZero(result.s[i]) =>
                      Count(result.s, result.s[i])
                          = Cardinality({j \in rel : root[j] = result.s[i]})
            /\ \A j \in rel : \E i \in 1..Len(result.s) : result.s[i] = root[j]

\* A double precision call whose positive second eigenvalue equals the
\* cutoff of the first, and is returned as zero.
C8_Witness ==
    /\ Returned
    /\ k = 2
    /\ Lower(eigvec.dtype) = "d"
    /\ ~IsZero(Clamped[2])
    /\ Same(Clamped[2], TheCutoff)
    /\ Reliable = {1}
    /\ IsZero(result.s[1])

\* C9: at every index of the result, a vector that comes from eigenpair j
\* stands beside the square root of eigenvalue j, which is reliable, divided
\* by it where it was derived through X_matmat; an augmented vector stands
\* beside a zero; u and vh hold the same eigenpair at the same index, and
\* every reliable eigenpair once.
C9_TripletsPaired ==
    (Returned /\ result.kind = "triplet") =>
        \E ev \in {Clamped} : \E c \in {CutoffOf(ev)} : \E rel \in {Above(ev, c)} :
        \E root \in {[j \in rel |-> Sqrt(ev[j])]} :
            /\ \A x \in Sides : \A i \in 1..k :
                  IF x.vecs[i].src = "rand"
                  THEN IsZero(result.s[i])
                  ELSE /\ x.vecs[i].j \in rel
                       /\ result.s[i] = root[x.vecs[i].j]
                       /\ x.vecs[i].src = "X" => x.vecs[i].by = result.s[i]
            /\ \A x \in Sides : \A j \in rel :
                  Cardinality({i \in 1..k : x.vecs[i].src # "rand" /\ x.vecs[i].j = j}) = 1
            /\ \A x \in Sides : \A y \in Sides : \A i \in 1..k :
                  x.vecs[i].src # "rand" /\ y.vecs[i].src # "rand"
                      => x.vecs[i].j = y.vecs[i].j

\* A call returning both sides where the sort moved the reliable first
\* eigenpair behind the augmented vector.
C9_Witness ==
    /\ Returned
    /\ k = 2
    /\ Reliable = {1}
    /\ ~result.u.isNone /\ ~result.vh.isNone
    /\ result.u.vecs[1].src = "rand" /\ result.vh.vecs[1].src = "rand"
    /\ result.u.vecs[2].j = 1 /\ result.vh.vecs[2].j = 1

Built == pc \in {"solve", "done"} /\ XH_X # NoGram

Forward(p) == p.of = "A" /\ p.in = m /\ p.out = n

Adjoint(p) == p.of = "A.H" /\ p.in = n /\ p.out = m

====
